------------------------------ MODULE Spec2Model ------------------------------
(***************************************************************************)
(* A model of pyref.py (src/py.py): the raw single-key reader              *)
(* get_single_key, the helpers built on it (press_any_key, ask_yes_no,     *)
(* menu_from_file), the scratch-file operations and the step sequence of   *)
(* main.                                                                   *)
(*                                                                         *)
(* Text is a sequence of characters.  A character is a one-character       *)
(* string; the control characters that have no TLA+ escape are written by  *)
(* their ASCII names ("ETX" is Ctrl-C, code 3; "ESC" is Escape, code 27)   *)
(* and SUPERSCRIPT TWO (U+00B2) is written "SUP2".  The string "" is the   *)
(* empty str that sys.stdin.read(1) returns at end of input.               *)
(***************************************************************************)
EXTENDS Integers, Sequences, FiniteSets, TLC

(***************************************************************************)
(* Bounds of the model.                                                    *)
(***************************************************************************)
\* number of times the script is run in the same environment
MaxRuns == 2
\* keys one ask_yes_no / menu_from_file call may reject before the model stops feeding it
MaxRejects == 2
\* longest line typed at an input() prompt of main
MaxTyped == 1
\* longest line typed at an input() prompt when the file operations are exercised alone
MaxInput == 3
\* longest scratch file (in characters) the file operations are exercised on
MaxFile == 4

(***************************************************************************)
(* Python str operations, on sequences of characters.                      *)
(***************************************************************************)
\* str.isspace() of one character
IsSpace(c) == c \in {" ", "\t", "\n", "\r", "\f"}

\* the line boundaries of str.splitlines(): "\n" and "\f"; "\f" also stands for
\* the other boundaries it knows besides "\n" (\r, \v, \x1c-\x1e, \x85, U+2028, U+2029)
IsLineBreak(c) == c \in {"\n", "\f"}

DecimalDigits == {"0", "1", "2", "3", "4", "5", "6", "7", "8", "9"}

\* the value int() gives a decimal digit
DigitValue(c) ==
    CASE c = "0" -> 0 [] c = "1" -> 1 [] c = "2" -> 2 [] c = "3" -> 3
      [] c = "4" -> 4 [] c = "5" -> 5 [] c = "6" -> 6 [] c = "7" -> 7
      [] c = "8" -> 8 [] c = "9" -> 9

\* str.splitlines(): the lines of s without their line boundaries; a final
\* boundary opens no empty last line
splitlines(s) ==
    LET breaks   == {i \in 1..Len(s) : IsLineBreak(s[i])}
        n        == Cardinality(breaks)
        brk(k)   == IF k = 0 THEN 0
                    ELSE CHOOSE p \in breaks : Cardinality({q \in breaks : q < p}) = k - 1
        closed   == [k \in 1..n |-> SubSeq(s, brk(k - 1) + 1, brk(k) - 1)]
    IN  IF brk(n) < Len(s) THEN Append(closed, SubSeq(s, brk(n) + 1, Len(s))) ELSE closed

RECURSIVE join(_, _)
\* sep.join(lines)
join(sep, lines) ==
    IF lines = <<>> THEN <<>>
    ELSE IF Len(lines) = 1 THEN lines[1]
    ELSE lines[1] \o sep \o join(sep, Tail(lines))

RECURSIVE lstrip(_)
lstrip(s) == IF s # <<>> /\ IsSpace(s[1]) THEN lstrip(Tail(s)) ELSE s

RECURSIVE rstrip(_)
rstrip(s) ==
    IF s # <<>> /\ IsSpace(s[Len(s)]) THEN rstrip(SubSeq(s, 1, Len(s) - 1)) ELSE s

\* str.strip()
strip(s) == rstrip(lstrip(s))

\* s[i:].startswith(w), i counted from 1
StartsAt(s, w, i) ==
    /\ i + Len(w) - 1 <= Len(s)
    /\ \A j \in 1..Len(w) : s[i + j - 1] = w[j]

\* w in s
contains(s, w) == \E i \in 1..(Len(s) + 1) : StartsAt(s, w, i)

\* s.endswith(w)
endswith(s, w) == Len(w) <= Len(s) /\ StartsAt(s, w, Len(s) - Len(w) + 1)

\* s.find(w), counted from 1; 0 when w is not in s
find(s, w) ==
    IF contains(s, w)
    THEN CHOOSE i \in 1..(Len(s) + 1) :
            StartsAt(s, w, i) /\ \A j \in 1..(i - 1) : ~StartsAt(s, w, j)
    ELSE 0

\* s.replace(w, r, 1)
replace_first(s, w, r) ==
    LET i == find(s, w)
    IN  IF i = 0 THEN s
        ELSE SubSeq(s, 1, i - 1) \o r \o SubSeq(s, i + Len(w), Len(s))

RECURSIVE replace(_, _, _)
\* s.replace(w, r), w not empty
replace(s, w, r) ==
    LET i == find(s, w)
    IN  IF i = 0 THEN s
        ELSE SubSeq(s, 1, i - 1) \o r \o replace(SubSeq(s, i + Len(w), Len(s)), w, r)

\* whether int(s) succeeds: optional surrounding whitespace, an optional sign,
\* then decimal digits, single underscores allowed between digits
IsIntLiteral(s) ==
    LET t == strip(s)
        d == IF t # <<>> /\ t[1] \in {"+", "-"} THEN Tail(t) ELSE t
    IN  /\ d # <<>>
        /\ d[1] \in DecimalDigits
        /\ d[Len(d)] \in DecimalDigits
        /\ \A i \in 1..Len(d) : d[i] \in DecimalDigits \cup {"_"}
        /\ \A i \in 1..(Len(d) - 1) : ~(d[i] = "_" /\ d[i + 1] = "_")

RECURSIVE DigitsValue(_, _)
DigitsValue(d, acc) ==
    IF d = <<>> THEN acc
    ELSE IF d[1] = "_" THEN DigitsValue(Tail(d), acc)
    ELSE DigitsValue(Tail(d), 10 * acc + DigitValue(d[1]))

\* int(s), for s with IsIntLiteral(s)
int(s) ==
    LET t == strip(s)
    IN  IF t[1] = "-" THEN 0 - DigitsValue(Tail(t), 0)
        ELSE IF t[1] = "+" THEN DigitsValue(Tail(t), 0)
        ELSE DigitsValue(t, 0)

(***************************************************************************)
(* The scratch files (lines 46-47) and the text write_initial_file writes. *)
(***************************************************************************)
\* "Line 1: Header - pyref example file\n"
InitialLine1 ==
    <<"L", "i", "n", "e", " ", "1", ":", " ", "H", "e", "a", "d",
      "e", "r", " ", "-", " ", "p", "y", "r", "e", "f", " ", "e",
      "x", "a", "m", "p", "l", "e", " ", "f", "i", "l", "e">>

\* "Line 2: This is the second line (we'll prepend numbers here later)\n"
InitialLine2 ==
    <<"L", "i", "n", "e", " ", "2", ":", " ", "T", "h", "i", "s",
      " ", "i", "s", " ", "t", "h", "e", " ", "s", "e", "c", "o",
      "n", "d", " ", "l", "i", "n", "e", " ", "(", "w", "e", "'",
      "l", "l", " ", "p", "r", "e", "p", "e", "n", "d", " ", "n",
      "u", "m", "b", "e", "r", "s", " ", "h", "e", "r", "e", " ",
      "l", "a", "t", "e", "r", ")">>

\* "Line 3: Menu item A - apples\n"
InitialLine3 ==
    <<"L", "i", "n", "e", " ", "3", ":", " ", "M", "e", "n", "u",
      " ", "i", "t", "e", "m", " ", "A", " ", "-", " ", "a", "p",
      "p", "l", "e", "s">>

\* "Line 4: Menu item B - bananas\n"
InitialLine4 ==
    <<"L", "i", "n", "e", " ", "4", ":", " ", "M", "e", "n", "u",
      " ", "i", "t", "e", "m", " ", "B", " ", "-", " ", "b", "a",
      "n", "a", "n", "a", "s">>

\* "Line 5: Menu item C - cherries\n"
InitialLine5 ==
    <<"L", "i", "n", "e", " ", "5", ":", " ", "M", "e", "n", "u",
      " ", "i", "t", "e", "m", " ", "C", " ", "-", " ", "c", "h",
      "e", "r", "r", "i", "e", "s">>

\* "apples"
Str_apples ==
    <<"a", "p", "p", "l", "e", "s">>

\* "bananas"
Str_bananas ==
    <<"b", "a", "n", "a", "n", "a", "s">>

\* "blueberries"
Str_blueberries ==
    <<"b", "l", "u", "e", "b", "e", "r", "r", "i", "e", "s">>

\* "Header"
Str_Header ==
    <<"H", "e", "a", "d", "e", "r">>

\* " -- END"
Str_EndMarker ==
    <<" ", "-", "-", " ", "E", "N", "D">>

\* "Header: "
Str_HeaderPrefix ==
    <<"H", "e", "a", "d", "e", "r", ":", " ">>

\* the lines list of write_initial_file, each line with its "\n" (lines 125-131)
InitialLines ==
    << InitialLine1 \o <<"\n">>, InitialLine2 \o <<"\n">>, InitialLine3 \o <<"\n">>,
       InitialLine4 \o <<"\n">>, InitialLine5 \o <<"\n">> >>

\* "".join(lines), the text write_initial_file writes (line 132)
InitialText == join(<<>>, InitialLines)

\* a variant of append_text_to_file that opens the file in mode "w"
append_text_truncating(old, text) == text \o <<"\n">>

\* the content of TMP_FILE after append_text_to_file(text): opened in mode "a",
\* so a missing file is created (old is then empty); text + "\n" is written
append_text_to_file(old, text) == old \o text \o <<"\n">>

RECURSIVE PadToTwo(_)
\* while len(lines) < 2: lines.append("")
PadToTwo(lines) == IF Len(lines) < 2 THEN PadToTwo(Append(lines, <<>>)) ELSE lines

\* a variant of prepend_to_second_line that changes lines[0]
prepend_to_first_line(text, num_str) ==
    LET lines  == PadToTwo(splitlines(text))
        lines2 == [lines EXCEPT ![1] = num_str \o <<" ">> \o lines[1]]
    IN  join(<<"\n">>, lines2) \o <<"\n">>

\* lines 192-197 of prepend_number_to_second_line: the new content of TMP_FILE
\* for the accepted input num_str
prepend_to_second_line(text, num_str) ==
    LET lines  == PadToTwo(splitlines(text))
        lines2 == [lines EXCEPT ![2] = num_str \o <<" ">> \o lines[2]]
    IN  join(<<"\n">>, lines2) \o <<"\n">>

\* the new content of TMP_FILE after text_parsing_demo (lines 367-392)
text_parsing(text0) ==
    LET text   == IF contains(text0, Str_bananas)
                  THEN replace_first(text0, Str_bananas, Str_blueberries)
                  ELSE text0
        lines  == splitlines(text)
        lines1 == IF lines # <<>> /\ contains(lines[1], Str_Header)
                  THEN [lines EXCEPT ![1] =
                          Str_HeaderPrefix \o strip(replace(lines[1], Str_Header, <<>>))]
                  ELSE lines
        lines2 == IF Len(lines1) >= 2 /\ ~endswith(lines1[2], Str_EndMarker)
                  THEN [lines1 EXCEPT ![2] = rstrip(lines1[2]) \o Str_EndMarker]
                  ELSE lines1
    IN  join(<<"\n">>, lines2) \o <<"\n">>

RECURSIVE NonBlank(_)
\* [ln for ln in lines if ln.strip()]
NonBlank(lines) ==
    IF lines = <<>> THEN <<>>
    ELSE IF strip(lines[1]) # <<>> THEN <<lines[1]>> \o NonBlank(Tail(lines))
    ELSE NonBlank(Tail(lines))

Min(a, b) == IF a < b THEN a ELSE b

(***************************************************************************)
(* What the terminal delivers.                                             *)
(***************************************************************************)
\* the units sys.stdin.read(1) can return in raw mode: "" at end of input,
\* Ctrl-C, Escape, letters, digits, and a non-ASCII digit character
ReadUnits == {"", "ETX", "ESC", "y", "Y", "n", "N", "0", "1", "6", "9", "SUP2"}

\* ord(ch) for the characters of ReadUnits
ord(ch) ==
    CASE ch = "ETX" -> 3    [] ch = "ESC" -> 27  [] ch = "SUP2" -> 178
      [] ch = "y" -> 121    [] ch = "Y" -> 89    [] ch = "n" -> 110
      [] ch = "N" -> 78
      [] ch \in DecimalDigits -> 48 + DigitValue(ch)

\* ch.lower() for a str of at most one character
lower(ch) == CASE ch = "Y" -> "y" [] ch = "N" -> "n" [] OTHER -> ch

\* ch.isdigit() for a str of at most one character: false for "", true for the
\* decimal digits and for the characters of Unicode category No with a digit
\* value, such as SUPERSCRIPT TWO
isdigit(ch) == ch \in DecimalDigits \cup {"SUP2"}

\* whether int(ch) succeeds for a one-character str: SUPERSCRIPT TWO is a
\* digit for isdigit() but no decimal, and int() raises ValueError on it
IntAccepts(ch) == ch \in DecimalDigits

\* the characters typed at an input() prompt: a digit, a sign, a letter and
\* a character that is both whitespace and a splitlines() boundary
InputChars == {"7", "+", "a", "\f"}

\* the lines of at most n characters
LinesUpTo(n) == UNION {[1..k -> InputChars] : k \in 0..n}

\* what input() meets at the terminal in line mode: a typed line, Ctrl-D on
\* an empty line (EOFError) or Ctrl-C (SIGINT, KeyboardInterrupt)
TtyEvents(n) ==
    {[kind |-> "line", text |-> l] : l \in LinesUpTo(n)}
        \cup {[kind |-> "eof", text |-> <<>>], [kind |-> "sigint", text |-> <<>>]}

NoInput == [kind |-> "none", text |-> <<>>]

\* the terminal modes the script can be started in (the mode of a shell's
\* terminal: line-buffered, with or without echo)
StartModes == {"cooked", "cooked_noecho"}

NoKey == [ch |-> "none", code |-> 0 - 1]
NoPending == [ch |-> "none", code |-> 0 - 1, exc |-> "none"]
\* last_read: <<ch>> when read(1) returned ch, <<>> when it failed
NoRead == <<"no read">>

(***************************************************************************)
(* State.                                                                  *)
(***************************************************************************)
VARIABLES
    termMode,      \* the input mode of the terminal (termios attributes of fd 0)
    old_settings,  \* get_single_key: the attributes saved at line 60
    rk,            \* get_single_key: "idle", the line about to run, or "ret" (exited)
    pending,       \* get_single_key: the return value or exception the finally block holds
    key,           \* the (ch, code) the last get_single_key call returned to its caller
    exc,           \* the exception propagating, "none" when there is none
    fn,            \* the helper main is in: press_any_key, ask_yes_no, menu_from_file
    retval,        \* the value ask_yes_no returned to main: "unset", "True", "False"
    menu_lines,    \* menu_from_file: lines
    max_choices,   \* menu_from_file: max_choices
    pc,            \* main: the line about to run, "done" or "aborted"
    run,           \* how many times the script has been started
    user_text,     \* main: user_text
    num_str,       \* prepend_number_to_second_line: num_str
    choice,        \* main: choice until line 447 has printed it: <<>> for None, <<line>>
    GLOBAL_VAR,    \* the module-level GLOBAL_VAR
    tmp_exists,    \* whether TMP_FILE exists
    tmp_text,      \* the content of TMP_FILE
    marker_exists, \* whether MARKER_FILE exists
    stdout,        \* the last text written to standard output
    tty_in,        \* what the terminal holds for the next input() call
    mode_before,   \* history: termMode when the current get_single_key call was made
    n_setraw,      \* history: tty.setraw calls of the current get_single_key call
    n_restore,     \* history: termios.tcsetattr calls of the current get_single_key call
    last_read,     \* history: what read(1) did in the get_single_key call that just exited
    rejected,      \* history: keys the current ask_yes_no/menu_from_file call rejected
    accepted,      \* history: accepting keys the current ask_yes_no call consumed
    started,       \* history: the display_demo calls of this run, by line
    marker_log,    \* history: <<run, "A">> or <<run, "B">> for the branch marker_file_demo
                   \* took, <<run, "unlink">> for a confirmed cleanup
    completed,     \* history: the earlier runs that reached line 522
    caught,        \* history: the except clauses of main entered in this run, by line
    tmp_before,    \* history: the content of TMP_FILE when the last file operation began
    last_op        \* history: the last file operation: "append", "prepend", "skip", "reprompt"

term_vars == <<termMode, old_settings, rk, pending, mode_before, n_setraw, n_restore,
              last_read>>
helper_vars == <<fn, retval, menu_lines, max_choices, rejected, accepted>>
local_vars == <<user_text, num_str, choice, GLOBAL_VAR>>
fs_vars == <<tmp_exists, tmp_text, marker_exists, tmp_before, last_op>>
hist_vars == <<started, marker_log, completed, caught>>

vars == <<termMode, old_settings, rk, pending, key, exc, fn, retval, menu_lines,
          max_choices, pc, run, user_text, num_str, choice, GLOBAL_VAR,
          tmp_exists, tmp_text, marker_exists, stdout, tty_in, mode_before,
          n_setraw, n_restore, last_read, rejected, accepted, started, marker_log,
          completed, caught, tmp_before, last_op>>

\* the state of a freshly started process (everything but the terminal and
\* the file system, which outlive it)
ProcessStart ==
    /\ old_settings = "unset" /\ rk = "idle" /\ pending = NoPending
    /\ key = NoKey /\ exc = "none" /\ fn = "none" /\ retval = "unset"
    /\ menu_lines = <<>> /\ max_choices = 0
    /\ pc = "L403" /\ user_text = <<>> /\ num_str = <<>> /\ choice = <<>>
    /\ GLOBAL_VAR = "I am global"
    /\ stdout = "" /\ tty_in = NoInput
    /\ n_setraw = 0 /\ n_restore = 0 /\ last_read = NoRead /\ rejected = 0 /\ accepted = 0
    /\ started = <<>> /\ caught = <<>>

\* the first start of the script, in an environment without the scratch files
Init ==
    /\ ProcessStart
    /\ run = 1
    /\ termMode \in StartModes
    /\ mode_before = termMode
    /\ tmp_exists = FALSE /\ tmp_text = <<>> /\ marker_exists = FALSE
    /\ marker_log = <<>> /\ completed = 0
    /\ tmp_before = <<>> /\ last_op = "none"

(***************************************************************************)
(* get_single_key (lines 51-70), one action per statement.                 *)
(***************************************************************************)
\* a variant of gsk_tcgetattr: the attributes are read after the terminal was
\* switched, so the raw attributes are the ones saved
gsk_tcgetattr_after_setraw ==
    /\ rk = "L60"
    /\ old_settings' = "raw"
    /\ mode_before' = termMode
    /\ n_setraw' = 0 /\ n_restore' = 0
    /\ rk' = "L62"
    /\ UNCHANGED <<termMode, pending, last_read, key, exc, helper_vars, pc, run,
                   local_vars, fs_vars, stdout, tty_in, hist_vars>>

\* line 60: old_settings = termios.tcgetattr(fd)
gsk_tcgetattr ==
    /\ rk = "L60"
    /\ old_settings' = termMode
    /\ mode_before' = termMode
    /\ n_setraw' = 0 /\ n_restore' = 0
    /\ rk' = "L62"
    /\ UNCHANGED <<termMode, pending, last_read, key, exc, helper_vars, pc, run,
                   local_vars, fs_vars, stdout, tty_in, hist_vars>>

\* line 62: tty.setraw(fd)
gsk_setraw ==
    /\ rk = "L62"
    /\ termMode' = "raw"
    /\ n_setraw' = n_setraw + 1
    /\ rk' = "L63"
    /\ UNCHANGED <<old_settings, pending, mode_before, n_restore, last_read, key, exc,
                   helper_vars, pc, run, local_vars, fs_vars, stdout, tty_in,
                   hist_vars>>

\* a variant of gsk_outcome without the test of line 66: Ctrl-C is returned
\* as a key
gsk_outcome_no_interrupt(ch) ==
    IF ch = "" THEN [ch |-> "", code |-> 0, exc |-> "none"]
    ELSE [ch |-> ch, code |-> ord(ch), exc |-> "none"]

\* what lines 63-68 leave for the finally block once read(1) has given ch
gsk_outcome(ch) ==
    IF ch = "" THEN [ch |-> "", code |-> 0, exc |-> "none"]
    ELSE IF ord(ch) = 3 THEN [ch |-> "none", code |-> 0 - 1, exc |-> "KeyboardInterrupt"]
    ELSE [ch |-> ch, code |-> ord(ch), exc |-> "none"]

\* lines 63-68: ch = sys.stdin.read(1), which returns one unit or fails (OSError)
gsk_read ==
    /\ rk = "L63"
    /\ \/ \E ch \in ReadUnits : pending' = gsk_outcome(ch) /\ last_read' = <<ch>>
       \/ /\ pending' = [ch |-> "none", code |-> 0 - 1, exc |-> "OSError"]
          /\ last_read' = <<>>
    /\ rk' = "L70"
    /\ UNCHANGED <<termMode, old_settings, mode_before, n_setraw, n_restore, key,
                   exc, helper_vars, pc, run, local_vars, fs_vars, stdout, tty_in,
                   hist_vars>>

\* a variant of gsk_finally: tcsetattr after the try statement instead of in
\* a finally block, so that it is skipped when the block raises
gsk_finally_after_try ==
    /\ rk = "L70"
    /\ termMode' = IF pending.exc = "none" THEN old_settings ELSE termMode
    /\ n_restore' = IF pending.exc = "none" THEN n_restore + 1 ELSE n_restore
    /\ key' = IF pending.exc = "none" THEN [ch |-> pending.ch, code |-> pending.code]
              ELSE NoKey
    /\ exc' = pending.exc
    /\ pending' = NoPending
    /\ rk' = "ret"
    /\ UNCHANGED <<old_settings, mode_before, n_setraw, last_read, helper_vars, pc, run,
                   local_vars, fs_vars, stdout, tty_in, hist_vars>>

\* lines 69-70: finally: termios.tcsetattr(fd, TCSADRAIN, old_settings); then
\* the pending return or raise takes effect
gsk_finally ==
    /\ rk = "L70"
    /\ termMode' = old_settings
    /\ n_restore' = n_restore + 1
    /\ key' = IF pending.exc = "none" THEN [ch |-> pending.ch, code |-> pending.code]
              ELSE NoKey
    /\ exc' = pending.exc
    /\ pending' = NoPending
    /\ rk' = "ret"
    /\ UNCHANGED <<old_settings, mode_before, n_setraw, last_read, helper_vars, pc, run,
                   local_vars, fs_vars, stdout, tty_in, hist_vars>>

(***************************************************************************)
(* press_any_key (lines 73-84).                                            *)
(***************************************************************************)
\* the lines of main that call press_any_key
PauseLines == {"L406", "L422", "L432", "L435", "L439", "L448", "L454", "L463",
               "L468", "L473", "L478", "L487", "L492", "L497", "L502", "L514",
               "L517", "L520"}

\* a variant of AfterPause in which the pause after the menu is followed by
\* the capture step, the shell step left out
AfterPause_skips_shell(l) ==
    CASE l = "L406" -> "L409" [] l = "L422" -> "L423" [] l = "L432" -> "L438"
      [] l = "L435" -> "L438" [] l = "L439" -> "L442" [] l = "L448" -> "L458"
      [] l = "L454" -> "L458" [] l = "L463" -> "L466" [] l = "L468" -> "L471"
      [] l = "L473" -> "L476" [] l = "L478" -> "L481" [] l = "L487" -> "L490"
      [] l = "L492" -> "L495" [] l = "L497" -> "L500" [] l = "L502" -> "L505"
      [] l = "L514" -> "L522" [] l = "L517" -> "L522" [] l = "L520" -> "L522"

\* the line of main that runs after the press_any_key call of line l returns
AfterPause(l) ==
    CASE l = "L406" -> "L409" [] l = "L422" -> "L423" [] l = "L432" -> "L438"
      [] l = "L435" -> "L438" [] l = "L439" -> "L442" [] l = "L448" -> "L452"
      [] l = "L454" -> "L458" [] l = "L463" -> "L466" [] l = "L468" -> "L471"
      [] l = "L473" -> "L476" [] l = "L478" -> "L481" [] l = "L487" -> "L490"
      [] l = "L492" -> "L495" [] l = "L497" -> "L500" [] l = "L502" -> "L505"
      [] l = "L514" -> "L522" [] l = "L517" -> "L522" [] l = "L520" -> "L522"

\* main is at line l, in none of its helpers, with no exception propagating
MainAt(l) == pc = l /\ fn = "none" /\ exc = "none" /\ rk = "idle"

\* lines 78-80: print the message, call get_single_key
press_any_key_L78 ==
    /\ \E l \in PauseLines : MainAt(l)
    /\ fn' = "press_any_key"
    /\ stdout' = IF pc = "L439"
                 THEN "Informing you: editing steps are complete. Press any key to continue..."
                 ELSE "Press any key to continue..."
    /\ rk' = "L60"
    /\ key' = NoKey
    /\ last_read' = NoRead
    /\ UNCHANGED <<termMode, old_settings, pending, mode_before, n_setraw, n_restore,
                   exc, retval, menu_lines, max_choices, rejected, accepted, pc, run,
                   local_vars, fs_vars, tty_in, hist_vars>>

\* line 84: the key is discarded, print(), return to main
press_any_key_L84 ==
    /\ fn = "press_any_key" /\ rk = "ret" /\ exc = "none"
    /\ stdout' = "\n"
    /\ fn' = "none"
    /\ rk' = "idle"
    /\ key' = NoKey
    /\ pc' = AfterPause(pc)
    /\ last_read' = NoRead
    /\ UNCHANGED <<termMode, old_settings, pending, mode_before, n_setraw, n_restore,
                   exc, retval, menu_lines, max_choices, rejected, accepted, run,
                   local_vars, fs_vars, tty_in, hist_vars>>

\* lines 81-83: except KeyboardInterrupt: print(); raise
press_any_key_L81 ==
    /\ fn = "press_any_key" /\ rk = "ret" /\ exc = "KeyboardInterrupt"
    /\ stdout' = "\n"
    /\ fn' = "none"
    /\ rk' = "idle"
    /\ last_read' = NoRead
    /\ UNCHANGED <<termMode, old_settings, pending, mode_before, n_setraw, n_restore,
                   key, exc, retval, menu_lines, max_choices, rejected, accepted, pc,
                   run, local_vars, fs_vars, tty_in, hist_vars>>

\* an exception no clause of the helper catches leaves the helper: any
\* exception in ask_yes_no and menu_from_file, any but KeyboardInterrupt in
\* press_any_key
helper_raise ==
    /\ fn # "none" /\ rk = "ret" /\ exc # "none"
    /\ ~(fn = "press_any_key" /\ exc = "KeyboardInterrupt")
    /\ fn' = "none"
    /\ rk' = "idle"
    /\ menu_lines' = <<>> /\ max_choices' = 0
    /\ last_read' = NoRead
    /\ UNCHANGED <<termMode, old_settings, pending, mode_before, n_setraw, n_restore,
                   key, exc, retval, rejected, accepted, pc, run, local_vars, fs_vars,
                   stdout, tty_in, hist_vars>>

(***************************************************************************)
(* ask_yes_no (lines 137-157).                                             *)
(***************************************************************************)
\* lines 142-145: write the question, enter the loop, call get_single_key
ask_yes_no_L142 ==
    /\ \E l \in {"L416", "L507"} : MainAt(l)
    /\ retval = "unset"
    /\ fn' = "ask_yes_no"
    /\ stdout' = IF pc = "L416" THEN "Would you like to edit the example file now? (y/n) "
                 ELSE "Demo complete. Clean up example files? (y/n) "
    /\ rk' = "L60"
    /\ key' = NoKey
    /\ rejected' = 0 /\ accepted' = 0
    /\ last_read' = NoRead
    /\ UNCHANGED <<termMode, old_settings, pending, mode_before, n_setraw, n_restore,
                   exc, retval, menu_lines, max_choices, pc, run, local_vars, fs_vars,
                   tty_in, hist_vars>>

\* a variant of ask_yes_no_answer that compares ch itself, not ch.lower()
ask_yes_no_answer_case_sensitive(k) ==
    IF k.ch = "y" THEN "True"
    ELSE IF k.ch = "n" THEN "False"
    ELSE IF k.code = 27 THEN "False"
    ELSE "unset"

\* the value ask_yes_no returns for a key, "unset" when it loops (lines 149-154)
ask_yes_no_answer(k) ==
    IF lower(k.ch) = "y" THEN "True"
    ELSE IF lower(k.ch) = "n" THEN "False"
    ELSE IF k.code = 27 THEN "False"
    ELSE "unset"

\* lines 147-157: echo the key; return on y/n/Esc, otherwise write the
\* guidance and call get_single_key again
ask_yes_no_L147 ==
    /\ fn = "ask_yes_no" /\ rk = "ret" /\ exc = "none"
    /\ LET r == ask_yes_no_answer(key)
       IN  IF r # "unset"
           THEN /\ retval' = r
                /\ fn' = "none"
                /\ rk' = "idle"
                /\ stdout' = key.ch
                /\ accepted' = accepted + 1
                /\ UNCHANGED rejected
           ELSE /\ rejected < MaxRejects
                /\ rejected' = rejected + 1
                /\ stdout' = "Please press 'y' or 'n': "
                /\ rk' = "L60"
                /\ UNCHANGED <<retval, fn, accepted>>
    /\ last_read' = NoRead
    /\ UNCHANGED <<termMode, old_settings, pending, mode_before, n_setraw, n_restore,
                   key, exc, menu_lines, max_choices, pc, run, local_vars, fs_vars,
                   tty_in, hist_vars>>

(***************************************************************************)
(* menu_from_file (lines 201-228).                                         *)
(***************************************************************************)
\* lines 206-218: read the file, list at most nine items, call get_single_key
menu_from_file_L206 ==
    /\ MainAt("L443")
    /\ key' = NoKey
    /\ rejected' = 0
    /\ IF ~tmp_exists
       THEN /\ exc' = "FileNotFoundError"
            /\ UNCHANGED <<menu_lines, max_choices, fn, rk, stdout, pc, choice>>
       ELSE LET lines == NonBlank(splitlines(tmp_text))
            IN  IF lines = <<>>
                THEN /\ stdout' = "No menu items found in the file."
                     /\ choice' = <<>>
                     /\ pc' = "L444"
                     /\ UNCHANGED <<menu_lines, max_choices, fn, rk, exc>>
                ELSE /\ menu_lines' = lines
                     /\ max_choices' = Min(9, Len(lines))
                     /\ stdout' = "Menu (press the number key to choose; Esc to cancel):"
                     /\ fn' = "menu_from_file"
                     /\ rk' = "L60"
                     /\ UNCHANGED <<exc, pc, choice>>
    /\ last_read' = NoRead
    /\ UNCHANGED <<termMode, old_settings, pending, mode_before, n_setraw, n_restore,
                   retval, accepted, run, user_text, num_str, GLOBAL_VAR, fs_vars,
                   tty_in, hist_vars>>

\* what lines 219-228 do with the key k: "cancel", <<"choose", n>>, "raise"
\* (int(ch) fails) or "loop"
menu_decision(k, max) ==
    IF k.code = 27 THEN <<"cancel", 0>>
    ELSE IF isdigit(k.ch)
         THEN IF ~IntAccepts(k.ch) THEN <<"raise", 0>>
              ELSE IF 1 <= DigitValue(k.ch) /\ DigitValue(k.ch) <= max
                   THEN <<"choose", DigitValue(k.ch)>>
                   ELSE <<"loop", 0>>
         ELSE <<"loop", 0>>

\* lines 219-228: Esc returns None, a digit in range returns its line, any
\* other key writes the guidance and calls get_single_key again
menu_from_file_L219 ==
    /\ fn = "menu_from_file" /\ rk = "ret" /\ exc = "none"
    /\ LET d == menu_decision(key, max_choices)
       IN  CASE d[1] = "cancel" ->
                  /\ stdout' = "Menu cancelled."
                  /\ choice' = <<>>
                  /\ fn' = "none" /\ rk' = "idle" /\ pc' = "L444"
                  /\ menu_lines' = <<>> /\ max_choices' = 0
                  /\ UNCHANGED <<exc, rejected>>
             [] d[1] = "choose" ->
                  /\ stdout' = "You selected"
                  /\ choice' = <<menu_lines[d[2]]>>
                  /\ fn' = "none" /\ rk' = "idle" /\ pc' = "L444"
                  /\ menu_lines' = <<>> /\ max_choices' = 0
                  /\ UNCHANGED <<exc, rejected>>
             [] d[1] = "raise" ->
                  /\ exc' = "ValueError"
                  /\ UNCHANGED <<stdout, choice, fn, rk, pc, menu_lines, max_choices,
                                 rejected>>
             [] d[1] = "loop" ->
                  /\ rejected < MaxRejects
                  /\ rejected' = rejected + 1
                  /\ stdout' = "Press a valid number key or Esc: "
                  /\ rk' = "L60"
                  /\ UNCHANGED <<exc, choice, fn, pc, menu_lines, max_choices>>
    /\ last_read' = NoRead
    /\ UNCHANGED <<termMode, old_settings, pending, mode_before, n_setraw, n_restore,
                   key, retval, accepted, run, user_text, num_str, GLOBAL_VAR,
                   fs_vars, tty_in, hist_vars>>

(***************************************************************************)
(* The terminal in line mode: what the user types at an input() prompt.    *)
(***************************************************************************)
\* the lines of the script that call input()
InputLines == {"L419", "L428", "L483"}

\* the user answers the prompt of main's current input() call
user_types ==
    /\ \E l \in InputLines : MainAt(l)
    /\ tty_in = NoInput
    /\ \E ev \in TtyEvents(MaxTyped) : tty_in' = ev
    /\ UNCHANGED <<term_vars, key, exc, helper_vars, pc, run, local_vars, fs_vars,
                   stdout, hist_vars>>

(***************************************************************************)
(* main (lines 401-522): one action per step, from a display_demo call or  *)
(* a call's return to the next call that waits for the terminal.           *)
(***************************************************************************)
\* display_demo (lines 93-112), called from line l of main
display_demo(l) == started' = Append(started, l)

\* lines 403-405: the intro
main_L403 ==
    /\ MainAt("L403")
    /\ display_demo(403)
    /\ stdout' = "Result: example_var = Hello, pyref!"
    /\ pc' = "L406"
    /\ UNCHANGED <<term_vars, key, exc, helper_vars, run, local_vars, fs_vars, tty_in,
                   marker_log, completed, caught>>

\* lines 409-411: write_initial_file() (lines 121-134)
main_L409 ==
    /\ MainAt("L409")
    /\ display_demo(409)
    /\ tmp_exists' = TRUE
    /\ tmp_text' = InitialText
    /\ stdout' = "Wrote initial file to /tmp/pyref_example.txt"
    /\ pc' = "L414"
    /\ UNCHANGED <<term_vars, key, exc, helper_vars, run, local_vars, marker_exists,
                   tmp_before, last_op, tty_in, marker_log, completed, caught>>

\* the display_demo calls of main that are followed by a call of their own
\* action: the line of the call that follows
AfterDisplay(l) ==
    CASE l = "L414" -> "L416" [] l = "L427" -> "L428" [] l = "L438" -> "L439"
      [] l = "L442" -> "L443" [] l = "L481" -> "L483" [] l = "L505" -> "L507"

DisplayLine(l) ==
    CASE l = "L414" -> 414 [] l = "L427" -> 427 [] l = "L438" -> 438
      [] l = "L442" -> 442 [] l = "L481" -> 481 [] l = "L505" -> 505

\* lines 414, 427, 438, 442, 481, 505: the preamble of a step that then waits
\* for the terminal
main_display ==
    /\ \E l \in {"L414", "L427", "L438", "L442", "L481", "L505"} : MainAt(l)
    /\ display_demo(DisplayLine(pc))
    /\ stdout' = "preamble"
    /\ pc' = AfterDisplay(pc)
    /\ UNCHANGED <<term_vars, key, exc, helper_vars, run, local_vars, fs_vars, tty_in,
                   marker_log, completed, caught>>

\* lines 416-418 and 429-431: the branch on what ask_yes_no returned
main_L416 ==
    /\ MainAt("L416")
    /\ retval # "unset"
    /\ IF retval = "True"
       THEN /\ display_demo(418)
            /\ stdout' = "preamble"
            /\ pc' = "L419"
       ELSE /\ stdout' = "Result: user chose not to edit the example file."
            /\ pc' = "L432"
            /\ UNCHANGED started
    /\ retval' = "unset"
    /\ key' = NoKey
    /\ rejected' = 0 /\ accepted' = 0
    /\ UNCHANGED <<term_vars, exc, fn, menu_lines, max_choices,
                   run, local_vars, fs_vars, tty_in, marker_log, completed, caught>>

\* input() (lines 164, 182, 483) meeting Ctrl-C or end of input: the exception
\* it raises, "none" for a line
input_raises(ev) ==
    CASE ev.kind = "sigint" -> "KeyboardInterrupt"
      [] ev.kind = "eof" -> "EOFError"
      [] OTHER -> "none"

\* lines 419-421: user_text = ask_for_text(...) (lines 160-164)
main_L419 ==
    /\ MainAt("L419")
    /\ tty_in # NoInput
    /\ tty_in' = NoInput
    /\ IF tty_in.kind = "line"
       THEN /\ user_text' = tty_in.text
            /\ stdout' = "Result: user_text = "
            /\ pc' = "L422"
            /\ UNCHANGED exc
       ELSE /\ exc' = input_raises(tty_in)
            /\ UNCHANGED <<user_text, stdout, pc>>
    /\ UNCHANGED <<term_vars, key, helper_vars, run, num_str, choice, GLOBAL_VAR,
                   fs_vars, hist_vars>>

\* lines 423-424: append_text_to_file(user_text) (lines 167-173)
main_L423 ==
    /\ MainAt("L423")
    /\ display_demo(423)
    /\ tmp_before' = IF tmp_exists THEN tmp_text ELSE <<>>
    /\ tmp_text' = append_text_to_file(IF tmp_exists THEN tmp_text ELSE <<>>, user_text)
    /\ tmp_exists' = TRUE
    /\ last_op' = "append"
    /\ stdout' = "Appended your text to /tmp/pyref_example.txt"
    /\ pc' = "L427"
    /\ UNCHANGED <<term_vars, key, exc, helper_vars, run, local_vars, marker_exists,
                   tty_in, marker_log, completed, caught>>

\* line 428: prepend_number_to_second_line() (lines 176-198), one turn of its
\* input loop
main_L428 ==
    /\ MainAt("L428")
    /\ tty_in # NoInput
    /\ tty_in' = NoInput
    /\ IF tty_in.kind # "line"
       THEN /\ exc' = input_raises(tty_in)
            /\ UNCHANGED <<num_str, tmp_text, tmp_before, last_op, stdout, pc>>
       ELSE LET s == strip(tty_in.text)
            IN  /\ num_str' = s
                /\ IF s = <<>>
                   THEN /\ stdout' = "No number entered; skipping."
                        /\ last_op' = "skip"
                        /\ tmp_before' = tmp_text
                        /\ pc' = "L438"
                        /\ UNCHANGED <<exc, tmp_text>>
                   ELSE IF ~IsIntLiteral(s)
                   THEN /\ stdout' = "Please enter a valid integer (e.g. 5 or -2)."
                        /\ last_op' = "reprompt"
                        /\ tmp_before' = tmp_text
                        /\ UNCHANGED <<exc, tmp_text, pc>>
                   ELSE IF ~tmp_exists
                   THEN /\ exc' = "FileNotFoundError"
                        /\ last_op' = "failed"
                        /\ UNCHANGED <<tmp_text, tmp_before, stdout, pc>>
                   ELSE /\ tmp_before' = tmp_text
                        /\ tmp_text' = prepend_to_second_line(tmp_text, s)
                        /\ last_op' = "prepend"
                        /\ stdout' = "Prepended number to the second line"
                        /\ pc' = "L438"
                        /\ UNCHANGED exc
    /\ UNCHANGED <<term_vars, key, helper_vars, run, user_text, choice, GLOBAL_VAR,
                   tmp_exists, marker_exists, hist_vars>>

\* a variant of main_L433 without the press_any_key() of line 435
main_L433_no_pause ==
    /\ pc \in {"L416", "L419", "L422", "L428", "L432"}
    /\ fn = "none" /\ rk = "idle" /\ exc = "KeyboardInterrupt"
    /\ exc' = "none"
    /\ caught' = Append(caught, 433)
    /\ stdout' = "Interrupted by user; continuing with defaults."
    /\ pc' = "L438"
    /\ retval' = "unset"
    /\ key' = NoKey
    /\ rejected' = 0 /\ accepted' = 0
    /\ UNCHANGED <<term_vars, fn, menu_lines, max_choices, run,
                   local_vars, fs_vars, tty_in, started, marker_log, completed>>

\* lines 433-434: except KeyboardInterrupt of the edit step
main_L433 ==
    /\ pc \in {"L416", "L419", "L422", "L428", "L432"}
    /\ fn = "none" /\ rk = "idle" /\ exc = "KeyboardInterrupt"
    /\ exc' = "none"
    /\ caught' = Append(caught, 433)
    /\ stdout' = "Interrupted by user; continuing with defaults."
    /\ pc' = "L435"
    /\ retval' = "unset"
    /\ key' = NoKey
    /\ rejected' = 0 /\ accepted' = 0
    /\ UNCHANGED <<term_vars, fn, menu_lines, max_choices, run,
                   local_vars, fs_vars, tty_in, started, marker_log, completed>>

\* lines 444-447: print the result of the menu
main_L444 ==
    /\ MainAt("L444")
    /\ stdout' = IF choice = <<>> THEN "Result: No menu choice selected."
                 ELSE "Result: You chose: "
    /\ pc' = "L448"
    /\ key' = NoKey
    /\ choice' = <<>>
    /\ rejected' = 0
    /\ UNCHANGED <<term_vars, exc, fn, retval, menu_lines, max_choices, accepted, run,
                   user_text, num_str, GLOBAL_VAR, fs_vars, tty_in, hist_vars>>

\* the steps of main that need nothing from the user and change no state but
\* the screen: run_bash_command (452-453), capture_bash_output (458-462),
\* demonstrate_data_types (466-467), demonstrate_functions (476-477),
\* demonstrate_imports (490-491); each ends at its press_any_key call
PlainSteps == {"L452", "L458", "L466", "L476", "L490"}

PlainDisplay(l) ==
    CASE l = "L452" -> 452 [] l = "L458" -> 458 [] l = "L466" -> 466
      [] l = "L476" -> 476 [] l = "L490" -> 490

PlainPause(l) ==
    CASE l = "L452" -> "L454" [] l = "L458" -> "L463" [] l = "L466" -> "L468"
      [] l = "L476" -> "L478" [] l = "L490" -> "L492"

main_plain ==
    /\ \E l \in PlainSteps : MainAt(l)
    /\ display_demo(PlainDisplay(pc))
    /\ stdout' = "output of the demonstration"
    /\ pc' = PlainPause(pc)
    /\ UNCHANGED <<term_vars, key, exc, helper_vars, run, local_vars, fs_vars, tty_in,
                   marker_log, completed, caught>>

\* lines 471-472: demonstrate_scope() (lines 284-305): inner_with_global
\* rebinds the module-level GLOBAL_VAR, inner_without_global only a local
main_L471 ==
    /\ MainAt("L471")
    /\ display_demo(471)
    /\ GLOBAL_VAR' = "modified in inner_with_global (global)"
    /\ stdout' = "local_var remains accessible inside demonstrate_scope"
    /\ pc' = "L473"
    /\ UNCHANGED <<term_vars, key, exc, helper_vars, run, user_text, num_str, choice,
                   fs_vars, tty_in, marker_log, completed, caught>>

\* conditional_example(value) (lines 324-333): the line it prints
conditional_example(value) ==
    IF value < 0 THEN "Value is negative."
    ELSE IF value = 0 THEN "Value is zero."
    ELSE "Value is positive."

\* lines 482-486: v = int(input(...)) (v is value below), 0 on any Exception (a line that is no
\* integer, end of input); KeyboardInterrupt is no Exception and is not caught
main_L483 ==
    /\ MainAt("L483")
    /\ tty_in # NoInput
    /\ tty_in' = NoInput
    /\ IF tty_in.kind = "sigint"
       THEN /\ exc' = "KeyboardInterrupt"
            /\ UNCHANGED <<stdout, pc>>
       ELSE LET value == IF tty_in.kind = "line" /\ IsIntLiteral(tty_in.text)
                         THEN int(tty_in.text) ELSE 0
            IN  /\ stdout' = conditional_example(value)
                /\ pc' = "L487"
                /\ UNCHANGED exc
    /\ UNCHANGED <<term_vars, key, helper_vars, run, user_text, num_str, choice,
                   GLOBAL_VAR, fs_vars, hist_vars>>

\* the branch marker_file_demo takes (line 352)
marker_branch(exists) == IF exists THEN "A" ELSE "B"

\* a variant of main_L495 whose branch B does not write the marker file
main_L495_no_create ==
    /\ MainAt("L495")
    /\ display_demo(495)
    /\ marker_log' = Append(marker_log, <<run, marker_branch(marker_exists)>>)
    /\ stdout' = IF marker_exists THEN "Date output captured (example):"
                 ELSE "Created marker file /tmp/pyref_marker"
    /\ pc' = "L497"
    /\ UNCHANGED <<term_vars, key, exc, helper_vars, run, local_vars, tmp_exists,
                   tmp_text, marker_exists, tmp_before, last_op, tty_in, completed,
                   caught>>

\* lines 495-496: marker_file_demo() (lines 348-359)
main_L495 ==
    /\ MainAt("L495")
    /\ display_demo(495)
    /\ marker_log' = Append(marker_log, <<run, marker_branch(marker_exists)>>)
    /\ marker_exists' = TRUE
    /\ stdout' = IF marker_exists THEN "Date output captured (example):"
                 ELSE "Created marker file /tmp/pyref_marker"
    /\ pc' = "L497"
    /\ UNCHANGED <<term_vars, key, exc, helper_vars, run, local_vars, tmp_exists,
                   tmp_text, tmp_before, last_op, tty_in, completed, caught>>

\* lines 500-501: text_parsing_demo() (lines 362-396)
main_L500 ==
    /\ MainAt("L500")
    /\ display_demo(500)
    /\ IF tmp_exists
       THEN /\ tmp_before' = tmp_text
            /\ tmp_text' = text_parsing(tmp_text)
            /\ last_op' = "text_parsing"
            /\ stdout' = "File contents (after):"
            /\ pc' = "L502"
            /\ UNCHANGED exc
       ELSE /\ exc' = "FileNotFoundError"
            /\ UNCHANGED <<tmp_before, tmp_text, last_op, stdout, pc>>
    /\ UNCHANGED <<term_vars, key, helper_vars, run, local_vars, tmp_exists,
                   marker_exists, tty_in, marker_log, completed, caught>>

\* a variant of main_L507 that calls unlink() without asking exists() first
main_L507_unlink_unchecked ==
    /\ MainAt("L507")
    /\ retval # "unset"
    /\ IF retval = "True"
       THEN IF tmp_exists /\ marker_exists
            THEN /\ tmp_exists' = FALSE
                 /\ tmp_text' = <<>>
                 /\ marker_exists' = FALSE
                 /\ marker_log' = Append(marker_log, <<run, "unlink">>)
                 /\ stdout' = "Result: Example files removed."
                 /\ pc' = "L514"
                 /\ UNCHANGED exc
            ELSE /\ exc' = "FileNotFoundError"
                 /\ tmp_exists' = FALSE
                 /\ tmp_text' = <<>>
                 /\ UNCHANGED <<marker_exists, marker_log, stdout, pc>>
       ELSE /\ stdout' = "Result: Files left in place"
            /\ pc' = "L517"
            /\ UNCHANGED <<tmp_exists, tmp_text, marker_exists, marker_log, exc>>
    /\ retval' = "unset"
    /\ key' = NoKey
    /\ rejected' = 0 /\ accepted' = 0
    /\ UNCHANGED <<term_vars, fn, menu_lines, max_choices,
                   run, local_vars, tmp_before, last_op, tty_in, started, completed,
                   caught>>

\* lines 507-516: the branch on what ask_yes_no returned at the cleanup
\* prompt; unlink() is called only on a file that exists
main_L507 ==
    /\ MainAt("L507")
    /\ retval # "unset"
    /\ IF retval = "True"
       THEN /\ tmp_exists' = FALSE
            /\ tmp_text' = <<>>
            /\ marker_exists' = FALSE
            /\ marker_log' = IF marker_exists THEN Append(marker_log, <<run, "unlink">>)
                             ELSE marker_log
            /\ stdout' = "Result: Example files removed."
            /\ pc' = "L514"
       ELSE /\ stdout' = "Result: Files left in place"
            /\ pc' = "L517"
            /\ UNCHANGED <<tmp_exists, tmp_text, marker_exists, marker_log>>
    /\ retval' = "unset"
    /\ key' = NoKey
    /\ rejected' = 0 /\ accepted' = 0
    /\ UNCHANGED <<term_vars, exc, fn, menu_lines, max_choices,
                   run, local_vars, tmp_before, last_op, tty_in, started, completed,
                   caught>>

\* lines 518-519: except KeyboardInterrupt of the cleanup step
main_L518 ==
    /\ pc \in {"L507", "L514", "L517"}
    /\ fn = "none" /\ rk = "idle" /\ exc = "KeyboardInterrupt"
    /\ exc' = "none"
    /\ caught' = Append(caught, 518)
    /\ stdout' = "Interrupted during cleanup prompt; leaving files in place."
    /\ pc' = "L520"
    /\ retval' = "unset"
    /\ key' = NoKey
    /\ rejected' = 0 /\ accepted' = 0
    /\ UNCHANGED <<term_vars, fn, menu_lines, max_choices, run,
                   local_vars, fs_vars, tty_in, started, marker_log, completed>>

\* line 522: the last line of main
main_L522 ==
    /\ MainAt("L522")
    /\ stdout' = "Exiting pyref.py. Goodbye."
    /\ pc' = "done"
    /\ UNCHANGED <<term_vars, key, exc, helper_vars, run, local_vars, fs_vars, tty_in,
                   hist_vars>>

\* the lines of main inside its two try statements (415-432, 506-517)
InTry(l) == l \in {"L416", "L419", "L422", "L428", "L432", "L507", "L514", "L517"}

\* an exception no except clause of main catches ends the process (line 526:
\* main() is called with no handler around it)
main_uncaught ==
    /\ pc \notin {"done", "aborted"}
    /\ fn = "none" /\ rk = "idle" /\ exc # "none"
    /\ ~(exc = "KeyboardInterrupt" /\ InTry(pc))
    /\ stdout' = "Traceback (most recent call last):"
    /\ pc' = "aborted"
    /\ UNCHANGED <<term_vars, key, exc, helper_vars, run, local_vars, fs_vars, tty_in,
                   hist_vars>>

\* the script is started again in the same environment: a new process, the
\* same terminal and files
run_again ==
    /\ pc \in {"done", "aborted"}
    /\ run < MaxRuns
    /\ run' = run + 1
    /\ old_settings' = "unset" /\ rk' = "idle" /\ pending' = NoPending
    /\ key' = NoKey /\ exc' = "none" /\ fn' = "none" /\ retval' = "unset"
    /\ menu_lines' = <<>> /\ max_choices' = 0
    /\ pc' = "L403" /\ user_text' = <<>> /\ num_str' = <<>> /\ choice' = <<>>
    /\ GLOBAL_VAR' = "I am global"
    /\ stdout' = "" /\ tty_in' = NoInput
    /\ n_setraw' = 0 /\ n_restore' = 0 /\ last_read' = NoRead /\ rejected' = 0 /\ accepted' = 0
    /\ started' = <<>> /\ caught' = <<>>
    /\ tmp_before' = <<>> /\ last_op' = "none"
    /\ completed' = IF pc = "done" THEN completed + 1 ELSE completed
    /\ UNCHANGED <<termMode, mode_before, tmp_exists, tmp_text, marker_exists, marker_log>>

Next ==
    \/ gsk_tcgetattr \/ gsk_setraw \/ gsk_read \/ gsk_finally
    \/ press_any_key_L78 \/ press_any_key_L84 \/ press_any_key_L81 \/ helper_raise
    \/ ask_yes_no_L142 \/ ask_yes_no_L147
    \/ menu_from_file_L206 \/ menu_from_file_L219
    \/ user_types
    \/ main_L403 \/ main_L409 \/ main_display \/ main_L416 \/ main_L419 \/ main_L423
    \/ main_L428 \/ main_L433 \/ main_L444 \/ main_plain \/ main_L471 \/ main_L483
    \/ main_L495 \/ main_L500 \/ main_L507 \/ main_L518 \/ main_L522
    \/ main_uncaught \/ run_again

Spec == Init /\ [][Next]_vars

(***************************************************************************)
(* The file operations of the edit step on their own: append_text_to_file  *)
(* (line 424) and prepend_number_to_second_line (line 428) applied to any  *)
(* small scratch file of the shape the script writes: lines that each end  *)
(* with "\n" (lines 132, 172, 197, 392), or no file at all.                *)
(***************************************************************************)
FileChars == {"a", "\n", "\f"}

ScratchFiles ==
    {t \in UNION {[1..k -> FileChars] : k \in 1..MaxFile} : t[Len(t)] = "\n"}

InitFile ==
    /\ old_settings = "unset" /\ rk = "idle" /\ pending = NoPending
    /\ key = NoKey /\ exc = "none" /\ fn = "none" /\ retval = "unset"
    /\ menu_lines = <<>> /\ max_choices = 0
    /\ num_str = <<>> /\ choice = <<>> /\ GLOBAL_VAR = "I am global"
    /\ stdout = "preamble"
    /\ n_setraw = 0 /\ n_restore = 0 /\ last_read = NoRead
    /\ rejected = 0 /\ accepted = 0
    /\ caught = <<>> /\ marker_log = <<>> /\ completed = 0
    /\ run = 1
    /\ termMode = "cooked" /\ mode_before = "cooked"
    /\ marker_exists = FALSE
    /\ last_op = "none"
    /\ tmp_exists = TRUE /\ tmp_text \in ScratchFiles
    /\ tmp_before = tmp_text
    /\ \/ /\ pc = "L423"
          /\ started = <<403, 409, 414, 418>>
          /\ user_text \in LinesUpTo(MaxInput)
          /\ tty_in = NoInput
       \/ /\ pc = "L428"
          /\ started = <<403, 409, 414, 418, 423, 427>>
          /\ user_text = <<>>
          /\ tty_in \in TtyEvents(MaxInput)

NextFile == main_L423 \/ main_L428 \/ user_types

SpecFile == InitFile /\ [][NextFile]_vars

(***************************************************************************)
(* The claims.                                                             *)
(***************************************************************************)

\* C1: whatever a get_single_key call did (returned a key, returned the empty
\* key at end of input, raised KeyboardInterrupt on Ctrl-C, or failed in the
\* read), the terminal mode once the call has exited is the mode in force
\* when the call was made; between calls the mode stays that one.
C1_ModeRestored == rk \in {"ret", "idle"} => termMode = mode_before

\* a call made in no-echo line mode has exited on a failed read
C1_Witness == rk = "ret" /\ exc = "OSError" /\ n_setraw = 1 /\ termMode = "cooked_noecho"

\* C2: a get_single_key call switches to raw mode at most once and, once it
\* has, restores the saved mode exactly once before it exits, on every path;
\* the terminal is in raw mode only inside the call, between its setraw and
\* its restore.
C2_RestoredExactlyOnce ==
    /\ n_setraw \in {0, 1}
    /\ rk \in {"L63", "L70"} => n_setraw = 1 /\ n_restore = 0 /\ termMode = "raw"
    /\ rk \notin {"L63", "L70"} => n_restore = n_setraw /\ termMode # "raw"

\* a call has exited on the interrupt path with one setraw and one restore
C2_Witness ==
    rk = "ret" /\ exc = "KeyboardInterrupt" /\ n_setraw = 1 /\ n_restore = 1

\* C3: when the unit read is Ctrl-C (code 3) the call returns no key and
\* raises KeyboardInterrupt; no key with code 3 is ever returned; and while
\* the interrupt propagates to press_any_key, ask_yes_no, menu_from_file and
\* main, the terminal is already back in the mode it had before the call.
C3_InterruptAfterRestore ==
    /\ (rk = "ret" /\ last_read = <<"ETX">>) =>
           exc = "KeyboardInterrupt" /\ key = NoKey /\ n_restore = 1
    /\ key.code # 3
    /\ exc = "KeyboardInterrupt" =>
           rk \in {"ret", "idle"} /\ termMode = mode_before /\ termMode # "raw"

\* the interrupt of a Ctrl-C read in ask_yes_no has reached main
C3_Witness ==
    /\ fn = "none" /\ pc = "L416" /\ exc = "KeyboardInterrupt"
    /\ n_setraw = 1 /\ n_restore = 1 /\ termMode = mode_before

C4_AcceptsTrue == {"y", "Y"}
C4_AcceptsFalse == {"n", "N", "ESC"}

\* C4: ask_yes_no returns only on an accepting key: "True" when it is y or Y,
\* "False" when it is n, N or Escape, and exactly one accepting key has then
\* been consumed; every key the call has rejected (the empty key included) is
\* none of those, was answered with the guidance prompt and left the call in
\* its loop with nothing returned.
C4_AskYesNo ==
    /\ accepted \in {0, 1}
    /\ fn = "ask_yes_no" => accepted = 0 /\ retval = "unset"
    /\ retval # "unset" =>
           /\ accepted = 1 /\ fn = "none" /\ pc \in {"L416", "L507"}
           /\ key.ch \in C4_AcceptsTrue \cup C4_AcceptsFalse
           /\ retval = IF key.ch \in C4_AcceptsTrue THEN "True" ELSE "False"
    /\ (fn = "ask_yes_no" /\ rk = "L60" /\ rejected > 0) =>
           /\ key # NoKey
           /\ key.ch \notin C4_AcceptsTrue \cup C4_AcceptsFalse
           /\ stdout = "Please press 'y' or 'n': "

\* ask_yes_no has returned True on Y after rejecting at least one key
C4_Witness == retval = "True" /\ key.ch = "Y" /\ rejected >= 1 /\ accepted = 1


\* ---------------------------------------------------------------------------
\* C5
\* ---------------------------------------------------------------------------

\* the key that selects item d
C5_DigitKey == <<"1", "2", "3", "4", "5", "6", "7", "8", "9">>

\* the items of the menu: the non-blank lines of TMP_FILE
C5_Items == NonBlank(splitlines(tmp_text))

\* the number of selectable items
C5_m == Min(9, Len(C5_Items))

\* key k selects an item or cancels
C5_Returns(k) == k.code = 27 \/ \E d \in 1..C5_m : k.ch = C5_DigitKey[d]

\* C5: in menu_from_file over n >= 1 items with m = min(9, n), every key read
\* is handled without failure: a digit d with 1 <= d <= m returns item d,
\* Escape returns no selection, any other key does not return and the prompt
\* is repeated; no item beyond the ninth is returned.
C5_MenuSelection ==
    /\ (fn = "menu_from_file" /\ key # NoKey) => exc = "none"
    /\ (pc = "L444" /\ key # NoKey) =>
          \/ key.code = 27 /\ choice = <<>>
          \/ \E d \in 1..C5_m : key.ch = C5_DigitKey[d] /\ choice = <<C5_Items[d]>>
    /\ (fn = "menu_from_file" /\ rk = "L60" /\ rejected > 0) =>
          /\ ~C5_Returns(key)
          /\ stdout = "Press a valid number key or Esc: "
    /\ choice # <<>> => \E d \in 1..C5_m : choice = <<C5_Items[d]>>

\* ---------------------------------------------------------------------------
\* C6
\* ---------------------------------------------------------------------------

\* the branches marker_file_demo took, in order, with the run that took them
C6_Visits ==
    LET IsVisit(e) == e[2] \in {"A", "B"}
    IN  SelectSeq(marker_log, IsVisit)

\* C6 as stated: two full runs from an environment without the marker file
\* take branch B in the first run and branch A in the second, whatever the
\* user answers.
C6_BThenA ==
    (run = 2 /\ pc = "done" /\ completed = 1) =>
        C6_Visits = <<<<1, "B">>, <<2, "A">>>>

\* C6, amended: the first visit of marker_file_demo takes branch B; a later
\* visit takes branch A exactly when no confirmed cleanup has removed the
\* marker file since the previous visit, and branch B again after a confirmed
\* cleanup; every run visits marker_file_demo at most once.
C6_BranchFollowsMarker ==
    /\ \A i \in 1..Len(marker_log) :
          marker_log[i][2] \in {"A", "B"} =>
              (marker_log[i][2] = "A" <=>
                  (i > 1 /\ marker_log[i - 1][2] \in {"A", "B"}))
    /\ \A i \in 1..Len(marker_log) :
          marker_log[i][2] = "unlink" =>
              /\ i > 1
              /\ marker_log[i - 1][1] = marker_log[i][1]
              /\ marker_log[i - 1][2] \in {"A", "B"}
    /\ \A i, j \in 1..Len(C6_Visits) : i < j => C6_Visits[i][1] < C6_Visits[j][1]
    /\ marker_exists <=>
          (marker_log # <<>> /\ marker_log[Len(marker_log)][2] \in {"A", "B"})

\* two full runs, the cleanup of the first one not confirmed: B, then A
C6_Witness ==
    /\ run = 2 /\ pc = "done" /\ completed = 1
    /\ marker_log = <<<<1, "B">>, <<2, "A">>>>

\* ---------------------------------------------------------------------------
\* C7
\* ---------------------------------------------------------------------------

\* C7 as stated: an interrupt in one step never aborts the remaining steps
C7_NeverAborts == ~(pc = "aborted" /\ exc = "KeyboardInterrupt")

\* the lines of main inside the try of the edit step and of the cleanup step
C7_EditTry == {"L416", "L419", "L422", "L428", "L432"}
C7_CleanupTry == {"L507", "L514", "L517"}

\* a KeyboardInterrupt has propagated to main
C7_Raised ==
    /\ fn = "none" /\ rk = "idle" /\ exc = "KeyboardInterrupt"
    /\ pc \notin {"done", "aborted"}

\* C7, amended: only the edit step and the cleanup step catch the interrupt:
\* raised inside their try it is caught, the step's notice is printed, the
\* step pauses once and, unless that pause fails in its turn, the run goes
\* on with the next step; raised anywhere else (the pause of any other step,
\* the menu, the integer prompt of the conditional step, the pause of a
\* handler) it ends the run.
C7_InterruptHandling ==
    [][ /\ (C7_Raised /\ pc \in C7_EditTry) =>
              /\ pc' = "L435" /\ exc' = "none"
              /\ stdout' = "Interrupted by user; continuing with defaults."
              /\ caught' = Append(caught, 433)
        /\ (C7_Raised /\ pc \in C7_CleanupTry) =>
              /\ pc' = "L520" /\ exc' = "none"
              /\ stdout' = "Interrupted during cleanup prompt; leaving files in place."
              /\ caught' = Append(caught, 518)
        /\ (C7_Raised /\ pc \notin C7_EditTry \cup C7_CleanupTry) =>
              /\ pc' = "aborted" /\ exc' = "KeyboardInterrupt"
              /\ caught' = caught
        /\ (pc = "L435" /\ pc' # pc) =>
              \/ pc' = "L438" /\ fn = "press_any_key" /\ rk = "ret" /\ exc = "none"
              \/ pc' = "aborted" /\ fn = "none" /\ exc # "none"
        /\ (pc = "L520" /\ pc' # pc) =>
              \/ pc' = "L522" /\ fn = "press_any_key" /\ rk = "ret" /\ exc = "none"
              \/ pc' = "aborted" /\ fn = "none" /\ exc # "none"
        /\ (pc \in {"L435", "L520"} /\ fn = "none" /\ rk = "idle" /\ exc = "none") =>
              fn' = "press_any_key" /\ pc' = pc
      ]_vars

\* the interrupt was caught by the edit step, which paused once and went on
C7_Witness == pc = "L438" /\ fn = "none" /\ caught = <<433>> /\ exc = "none"

\* ---------------------------------------------------------------------------
\* C8
\* ---------------------------------------------------------------------------

\* the display_demo calls of main, by line, in the order they are written
C8_Steps ==
    <<403, 409, 414, 418, 423, 427, 438, 442, 452, 458, 466, 471, 476, 481,
      490, 495, 500, 505>>

\* the steps without those of lines S
C8_Without(S) ==
    LET Kept(l) == l \notin S
    IN  SelectSeq(C8_Steps, Kept)

C8_IsPrefix(a, b) == Len(a) <= Len(b) /\ SubSeq(b, 1, Len(a)) = a

\* C8 as stated: a run starts every step, in the written order, once; only
\* the edit sub-steps may be left out, and only when the user declines
C8_FixedOrder ==
    pc = "done" =>
        \/ started = C8_Steps
        \/ /\ started = C8_Without({418, 423, 427})
           /\ \A i \in 1..Len(caught) : caught[i] # 433

\* C8, amended: the steps start in the written order, none twice; a run that
\* reaches its end has started every step except, possibly, edit sub-steps:
\* all three (text prompt, append, prepend) when the user declines or
\* interrupts the edit question, the append and the prepend when the text
\* prompt or its pause is interrupted, and this last omission happens only
\* after the interrupt handler of the edit step has run.
C8_StepOrder ==
    LET Orders == {C8_Steps, C8_Without({418, 423, 427}), C8_Without({423, 427})}
        Has(l) == \E i \in 1..Len(started) : started[i] = l
    IN  /\ \E o \in Orders : C8_IsPrefix(started, o)
        /\ pc = "done" => started \in Orders
        /\ (Has(418) /\ Has(438) /\ ~Has(427)) => (caught # <<>> /\ caught[1] = 433)

\* a run that ended after an interrupt at the text prompt or its pause
C8_Witness == pc = "done" /\ started = C8_Without({423, 427}) /\ caught = <<433>>

\* ---------------------------------------------------------------------------
\* C9
\* ---------------------------------------------------------------------------

\* the decimal numeral of a natural number, and of an integer
RECURSIVE C9_NatNumeral(_)
C9_NatNumeral(n) ==
    LET d == <<"0", "1", "2", "3", "4", "5", "6", "7", "8", "9">>
    IN  IF n < 10 THEN <<d[n + 1]>>
        ELSE C9_NatNumeral(n \div 10) \o <<d[(n % 10) + 1]>>

C9_Numeral(k) == IF k < 0 THEN <<"-">> \o C9_NatNumeral(0 - k) ELSE C9_NatNumeral(k)

\* line i of a file of lines ls, blank when the file is shorter
C9_Line(ls, i) == IF i <= Len(ls) THEN ls[i] ELSE <<>>

\* the file after the prepend step, its second line starting with prefix p
C9_Prepended(p) ==
    LET old == splitlines(tmp_before)
        new == splitlines(tmp_text)
    IN  /\ Len(new) = IF Len(old) < 2 THEN 2 ELSE Len(old)
        /\ new[2] = p \o <<" ">> \o C9_Line(old, 2)
        /\ \A i \in 1..Len(new) : i # 2 => new[i] = C9_Line(old, i)

\* C9 as stated: given a valid integer k the second line becomes k, one
\* space, the former second line, the other lines unchanged and a file of
\* fewer than two lines padded with a blank second line.
C9_PrependsTheInteger ==
    last_op = "prepend" => C9_Prepended(C9_Numeral(int(num_str)))

\* C9, amended: given text that int() accepts, the second line becomes that
\* text as typed, surrounding whitespace stripped (so "+7" gives "+7 abc" and
\* "07" gives "07 abc"), one space, the former second line; the other lines
\* are unchanged, a file of fewer than two lines gets a blank second line
\* first; the lines are those str.splitlines finds (a form feed ends a line
\* too) and the file is rewritten as these lines, each followed by "\n";
\* text that int() rejects is asked for again without touching the file, and
\* blank text ends the step with the file unchanged.
C9_PrependsTheText ==
    /\ last_op = "prepend" =>
          /\ IsIntLiteral(num_str) /\ num_str = strip(num_str)
          /\ C9_Prepended(num_str)
          /\ tmp_text = join(<<"\n">>, splitlines(tmp_text)) \o <<"\n">>
          /\ pc = "L438"
    /\ last_op = "reprompt" =>
          /\ num_str # <<>> /\ ~IsIntLiteral(num_str)
          /\ tmp_text = tmp_before /\ pc = "L428"
    /\ last_op = "skip" =>
          /\ num_str = <<>>
          /\ tmp_text = tmp_before /\ pc = "L438"

\* "+7" was typed for a file of one line
C9_Witness ==
    /\ last_op = "prepend" /\ num_str = <<"+", "7">>
    /\ tmp_before = <<"a", "\n">>
    /\ tmp_text = <<"a", "\n", "+", "7", " ", "\n">>

\* ---------------------------------------------------------------------------
\* C10
\* ---------------------------------------------------------------------------

\* the lines of a text, a line ending at each "\n"; text after the last "\n"
\* is a line of its own
C10_Lines(t) ==
    LET nl      == {i \in 1..Len(t) : t[i] = "\n"}
        nth(k)  == CHOOSE i \in nl : Cardinality({j \in nl : j <= i}) = k
        from(k) == IF k = 1 THEN 1 ELSE nth(k - 1) + 1
        n       == Cardinality(nl)
        whole   == [k \in 1..n |-> SubSeq(t, from(k), nth(k) - 1)]
    IN  IF from(n + 1) <= Len(t)
        THEN Append(whole, SubSeq(t, from(n + 1), Len(t)))
        ELSE whole

\* text without a character at which str.splitlines ends a line
C10_OneLine(t) == \A i \in 1..Len(t) : ~IsLineBreak(t[i])

\* C10: after append_text_to_file(t) the file has exactly one more line than
\* before, the new last line is t, and the earlier lines are unchanged; the
\* lines are the "\n"-terminated ones, and also the ones str.splitlines finds
\* when t holds no form feed or other line boundary of its own.
C10_AppendsOneLine ==
    last_op = "append" =>
        /\ C10_Lines(tmp_text) = Append(C10_Lines(tmp_before), user_text)
        /\ Len(C10_Lines(tmp_text)) = Len(C10_Lines(tmp_before)) + 1
        /\ tmp_text[Len(tmp_text)] = "\n"
        /\ C10_OneLine(user_text) =>
               splitlines(tmp_text) = Append(splitlines(tmp_before), user_text)

\* a line was appended to a file of two lines
C10_Witness ==
    /\ last_op = "append" /\ user_text = <<"a", "7">>
    /\ Len(C10_Lines(tmp_before)) = 2 /\ Len(C10_Lines(tmp_text)) = 3
    /\ tmp_text[Len(tmp_text) - 2] = "a" /\ tmp_text[Len(tmp_text) - 1] = "7"


\* ---------------------------------------------------------------------------
\* The cleanup step on its own: main at line 505, the text parsing demo done,
\* TMP_FILE and MARKER_FILE each present or absent (they live in /tmp, where
\* anything may have removed them since the program wrote them).
\* ---------------------------------------------------------------------------

InitCleanup ==
    /\ old_settings = "unset" /\ rk = "idle" /\ pending = NoPending
    /\ key = NoKey /\ exc = "none" /\ fn = "none" /\ retval = "unset"
    /\ menu_lines = <<>> /\ max_choices = 0
    /\ user_text = <<>> /\ num_str = <<>> /\ choice = <<>>
    /\ GLOBAL_VAR = "I am global"
    /\ stdout = "" /\ tty_in = NoInput
    /\ n_setraw = 0 /\ n_restore = 0 /\ last_read = NoRead
    /\ rejected = 0 /\ accepted = 0
    /\ run = 1 /\ completed = 0
    /\ termMode \in StartModes /\ mode_before = termMode
    /\ pc = "L505"
    /\ started = <<403, 409, 414, 438, 442, 452, 458, 466, 471, 476, 481, 490, 495, 500>>
    /\ caught = <<>>
    /\ marker_log = <<<<1, "B">>>>
    /\ marker_exists \in BOOLEAN
    /\ \/ /\ tmp_exists = TRUE /\ tmp_text \in ScratchFiles
       \/ /\ tmp_exists = FALSE /\ tmp_text = <<>>
    /\ tmp_before = tmp_text
    /\ last_op = "text_parsing"

NextCleanup ==
    \/ gsk_tcgetattr \/ gsk_setraw \/ gsk_read \/ gsk_finally
    \/ press_any_key_L78 \/ press_any_key_L84 \/ press_any_key_L81 \/ helper_raise
    \/ ask_yes_no_L142 \/ ask_yes_no_L147
    \/ main_display \/ main_L507 \/ main_L518 \/ main_L522 \/ main_uncaught

SpecCleanup == InitCleanup /\ [][NextCleanup]_vars

\* ---------------------------------------------------------------------------
\* C11
\* ---------------------------------------------------------------------------

\* the lines of main that make up the cleanup step
C11_CleanupLines == {"L505", "L507", "L514", "L517", "L520", "L522"}

\* main is about to act on a confirmed cleanup
C11_Confirmed == MainAt("L507") /\ retval = "True"

\* a KeyboardInterrupt raised at the cleanup prompt has reached main
C11_Interrupted ==
    pc = "L507" /\ fn = "none" /\ rk = "idle" /\ exc = "KeyboardInterrupt"

\* what one step of the cleanup step does to the files
C11_Step ==
    pc \in C11_CleanupLines =>
        /\ C11_Confirmed =>
              /\ ~tmp_exists' /\ ~marker_exists'
              /\ exc' = "none" /\ pc' = "L514"
              /\ stdout' = "Result: Example files removed."
        /\ ~C11_Confirmed => UNCHANGED <<tmp_exists, tmp_text, marker_exists>>
        /\ (MainAt("L507") /\ retval = "False") => (exc' = "none" /\ pc' = "L517")
        /\ C11_Interrupted => (exc' = "none" /\ pc' = "L520")

\* C11: at the cleanup step, when the user confirms, neither scratch file
\* exists afterwards and the step goes on without error whichever of the two
\* files was present or absent; when the user declines or interrupts the
\* prompt, both files are left exactly as they were.
C11_Cleanup == [][C11_Step]_vars

\* a confirmed cleanup that found TMP_FILE absent and MARKER_FILE present
C11_Witness ==
    /\ pc = "L514" /\ exc = "none"
    /\ tmp_before = <<>> /\ ~tmp_exists
    /\ marker_log = <<<<1, "B">>, <<1, "unlink">>>> /\ ~marker_exists
=============================================================================
